---- MODULE Spec2Model ----
(***************************************************************************)
(* A model of the wasm_blur crate (marquaye/scanic): the Canny pipeline    *)
(* of src/wasm_blur/src: gaussian_blur.rs, gradient_calculation.rs,        *)
(* non_maximum_suppression.rs, hysteresis.rs, canny.rs and dilation.rs.    *)
(*                                                                         *)
(* A Vec or slice of length n is a function with domain 0..n-1, so that    *)
(* the index arithmetic of the source is kept as written.  An f32          *)
(* threshold is held as a natural number; an f32 magnitude m is held as    *)
(* its square m * m, a natural number too, so that sqrt(dx*dx + dy*dy) is  *)
(* exact: GeF32 compares a magnitude with a threshold or with another      *)
(* magnitude.  The program position pc is "abort" after a panic.           *)
(***************************************************************************)
EXTENDS Integers, Sequences, FiniteSets, TLC

VARIABLES
    entry,            \* the entry point the host called
    target_arch,      \* the target the crate was built for
    pc,               \* position in the called entry point
    width, height,
    grayscale,        \* &[u8] handed to blur / canny_edge_detector_full
    kernel_size,      \* kernel_size of blur, of dilate when it is the entry
    sigma,            \* mut sigma: f32, held as <<m, e>> for m * 10^e
    kernel_fixed,     \* Vec<FixedPoint> of blur
    temp_buffer,      \* Vec<u32> of blur
    result,           \* Vec<u8> of blur
    allocated,        \* the working buffers allocated so far
    oob,              \* unchecked accesses made past the end of a buffer
    l2_gradient, apply_dilation, dilation_kernel_size,
    blurred,          \* canny_edge_detector_full: what blur returned
    dx_i16, dy_i16,   \* its de-interleaved gradients
    final_low_threshold, final_high_threshold,
    canny_edges,      \* what its hysteresis_thresholding returned
    stages,           \* the stages it has finished, in order
    suppressed,       \* &[f32] handed to / produced for hysteresis
    low_threshold, high_threshold,
    edge_map,         \* tri-state map of the hysteresis in progress
    stack,            \* its work stack of (x, y)
    binary,           \* binary / final_edges of the hysteresis in progress
    pushed,           \* how often each pixel was pushed onto the stack so far
    edges,            \* &[u8] handed to dilate
    temp,             \* temp of dilate
    ret               \* the value the entry point returned

callVars == <<entry, target_arch, width, height>>
blurArgs == <<grayscale, kernel_size>>
blurVars == <<sigma, kernel_fixed, temp_buffer, result, allocated, oob>>
cannyArgs == <<l2_gradient, apply_dilation, dilation_kernel_size>>
cannyVars == <<blurred, dx_i16, dy_i16, final_low_threshold, final_high_threshold,
               canny_edges, stages>>
hystArgs == <<suppressed, low_threshold, high_threshold>>
hystVars == <<edge_map, stack, binary, pushed>>
dilateVars == <<edges, temp>>
vars == <<callVars, pc, blurArgs, blurVars, cannyArgs, cannyVars, hystArgs, hystVars,
          dilateVars, ret>>

(***************************************************************************)
(* Bounds of the model.                                                    *)
(***************************************************************************)
MaxPixels == 21      \* images of width * height <= MaxPixels
MaxLit == 1          \* pixels of an input differing from its background
MaxBlurPixels == 12  \* images of width * height <= MaxBlurPixels handed to blur
MaxKernelSize == 7   \* kernel_size of blur in 0..MaxKernelSize
MaxCannyWidth == 4   \* images handed to canny_edge_detector_full
MaxCannyHeight == 3
MaxDilatePixels == 16  \* masks of width * height <= MaxDilatePixels handed to dilate
MaxDilateKernel == 5   \* kernel_size of dilate in 1..MaxDilateKernel
MaxGrowPixels == 15    \* fields handed to the hysteresis run in any order
MaxStagePixels == 12   \* images handed to calculate_gradients, non_maximum_suppression

\* the magnitudes (0.0, 1.0 and 2.0, held as their squares) and thresholds
\* drawn: with thresholds in 1..2 a magnitude of 0, 1 or 2 falls in every
\* class (below low, weak, strong) some pair
\* of thresholds makes
Mags == {0, 1, 4}
ThresholdPairs == {<<1, 2>>, <<1, 1>>, <<2, 1>>}

(***************************************************************************)
(* Vec helpers.                                                            *)
(***************************************************************************)
VecOf(n, v) == [i \in 0..(n - 1) |-> v]
VLen(a) == Cardinality(DOMAIN a)

\* (v as isize + ..) as usize: a negative value wraps to 2^32 + v on the
\* wasm32 target.  TLC's integers end at 2^31 - 1, so the wrapped value is
\* held as (2^31 - 1) + v + 1: like 2^32 + v it is above every length and
\* coordinate it is compared with.
AsUsize(v) == IF v < 0 THEN (2147483647 + v) + 1 ELSE v

\* mag >= threshold in f32, for the magnitude held as magSq = mag * mag
\* (below 2^31) and a threshold >= 0: mag >= thr iff mag * mag >= thr * thr.
\* A threshold above 46340 has a square above 2^31, so above magSq.
GeF32(magSq, thr) == thr <= 46340 /\ magSq >= thr * thr

Clamp(v, lo, hi) == IF v < lo THEN lo ELSE IF v > hi THEN hi ELSE v

\* usize::saturating_sub
SaturatingSub(a, b) == IF a >= b THEN a - b ELSE 0

\* the sum of f[0] .. f[n - 1]
RECURSIVE SumFn(_, _)
SumFn(f, n) == IF n = 0 THEN 0 ELSE f[n - 1] + SumFn(f, n - 1)

\* a 1-based tuple as a Vec
VecFrom(t) == [i \in 0..(Len(t) - 1) |-> t[i + 1]]

(***************************************************************************)
(* gaussian_blur.rs                                                        *)
(***************************************************************************)
SIMD_WIDTH == 4

\* sigma = 0.3 * (((kernel_size - 1) as f32) * 0.5 - 1.0) + 0.8, in tenths:
\* 0.5, 0.8, 1.1, 1.4, 1.7 for kernel_size 1, 3, 5, 7, 9
DefaultSigma(ks) == <<(3 * ((ks - 1) * 5 - 10)) \div 10 + 8, -1>>

\* sigma <= 0.0
SigmaNotPositive(sg) == sg[1] <= 0

\* 2.0 * sigma * sigma underflows to 0.0 in f32 for a positive sigma of
\* 1e-23 or less
SigmaSquareUnderflows(sg) == sg[1] > 0 /\ sg[2] <= -23

\* create_gaussian_kernel_fixed.  When 2.0 * sigma * sigma is 0.0,
\* neg_inv_2sigma_sq is -inf, the centre weight is exp(0.0 * -inf) = exp(NaN),
\* so sum and every val * inv_sum is NaN and to_fixed_point gives
\* (NaN) as u32 = 0.  For the other sigmas drawn the f32 evaluation
\* (exp, the running sum, 1.0 / sum, val * inv_sum * 65536.0 + 0.5, truncated)
\* gives the weights tabulated here.
create_gaussian_kernel_fixed(size, sg) ==
    IF SigmaSquareUnderflows(sg) THEN VecOf(size, 0)
    ELSE IF size = 1 THEN VecFrom(<<65536>>)
    ELSE IF sg = <<10, -1>> THEN
        CASE size = 3 -> VecFrom(<<17961, 29613, 17961>>)
          [] size = 5 -> VecFrom(<<3571, 16004, 26386, 16004, 3571>>)
          [] size = 7 -> VecFrom(<<291, 3539, 15862, 26152, 15862, 3539, 291>>)
          [] size = 9 -> VecFrom(<<9, 290, 3538, 15858, 26145, 15858, 3538, 290, 9>>)
    ELSE
        CASE <<size, sg>> = <<3, <<8, -1>>>> -> VecFrom(<<15663, 34211, 15663>>)
          [] <<size, sg>> = <<5, <<11, -1>>>> -> VecFrom(<<4638, 16021, 24219, 16021, 4638>>)
          [] <<size, sg>> = <<7, <<14, -1>>>> ->
                 VecFrom(<<1900, 6804, 14626, 18876, 14626, 6804, 1900>>)
          [] <<size, sg>> = <<9, <<17, -1>>>> ->
                 VecFrom(<<973, 3265, 7754, 13030, 15492, 13030, 7754, 3265, 973>>)

\* sum over k of kernel[k] * src[base + clamp(pos + k - half, 0, last) * stride]
\* for u8 or Q8 values below 2^15 (the sum stays below 2^31)
ClampedDot(src, base, stride, pos, last, kernel) ==
    LET half_kernel == VLen(kernel) \div 2
    IN  SumFn([k_idx \in 0..(VLen(kernel) - 1) |->
                  kernel[k_idx] * src[base + Clamp(pos + k_idx - half_kernel, 0, last) * stride]],
              VLen(kernel))

\* a u64 sum of products kernel[k] * value[k], which can pass 2^31, held as
\* hi * 2^24 + lo with lo < 2^24: the products are added in 8- and 16-bit
\* pieces, none of which passes 2^31 for weights below 2^17, values below
\* 2^31 and at most 9 terms
WideDot(ks, vs) ==
    LET n == VLen(ks)
        kh(i) == ks[i] \div 256
        kl(i) == ks[i] % 256
        vh(i) == vs[i] \div 65536
        vl(i) == vs[i] % 65536
        A == SumFn([i \in 0..(n - 1) |-> kh(i) * vh(i)], n)
        B == SumFn([i \in 0..(n - 1) |-> kh(i) * vl(i)], n)
        C == SumFn([i \in 0..(n - 1) |-> kl(i) * vh(i)], n)
        D == SumFn([i \in 0..(n - 1) |-> kl(i) * vl(i)], n)
        low == (B % 65536) * 256 + (C % 256) * 65536 + D
    IN  [hi |-> A + (B \div 65536) + (C \div 256) + (low \div 16777216),
         lo |-> low % 16777216]

\* mutant of ToU8: (sum >> 24) as u8, without the cap
ToU8_Truncating(sum) == sum.hi % 256

\* (sum >> 24).min(255) as u8
ToU8(sum) == IF sum.hi > 255 THEN 255 ELSE sum.hi

\* the x at which a SIMD iteration of `let mut x = first; while x <= simd_end
\* { .. x += 4; }` runs
SimdXs(first, simd_end) ==
    {x \in first..simd_end : (x - first) % SIMD_WIDTH = 0}

\* x after that loop
AfterSimd(first, simd_end) ==
    IF simd_end < first THEN first
    ELSE first + SIMD_WIDTH * ((simd_end - first) \div SIMD_WIDTH + 1)

\* what a pass leaves behind: the buffer, the accesses it made past the end
\* of a buffer, and whether it panicked
PassOutcome(buf, accesses, panicked) ==
    [buf |-> buf, oob |-> accesses, panicked |-> panicked]

\* writes (a function from absolute index to value) applied to buf: those
\* inside buf are stored, those past its end are unchecked stores outside it
Store(buf, writes) == [j \in DOMAIN buf |-> IF j \in DOMAIN writes THEN writes[j] ELSE buf[j]]
Outside(name, op, len, indices) ==
    {[buf |-> name, op |-> op, idx |-> j] : j \in {i \in indices : i >= len}}

\* horizontal_pass_fixed, the general case (kernel length not 3 or 5), rows
\* y .. height - 1: the SIMD loop stores 4 lanes at dst_row[x..x + 4] through
\* a raw pointer whatever the width, then the remaining pixels are stored
RECURSIVE HorizontalGeneralRows(_, _, _, _, _, _)
HorizontalGeneralRows(src, out, w, h, kernel, y) ==
    IF y >= h THEN out
    ELSE LET row_offset == y * w
             simd_end == SaturatingSub(w, SIMD_WIDTH)
             lanes == {x + i : x \in SimdXs(0, simd_end), i \in 0..3}
             rest == AfterSimd(0, simd_end)..(w - 1)
             value(px) == ClampedDot(src, row_offset, 1, px, w - 1, kernel) \div 256
             writes == [j \in {row_offset + px : px \in lanes \cup rest} |-> value(j - row_offset)]
         IN  HorizontalGeneralRows(
                 src,
                 PassOutcome(Store(out.buf, writes),
                             out.oob \cup Outside("temp_buffer", "write", VLen(out.buf),
                                                  DOMAIN writes),
                             FALSE),
                 w, h, kernel, y + 1)

\* horizontal_pass_3x3_fixed: the first pixel is stored unshifted, src_row[1]
\* panics for a width of 1
Horizontal3x3(src, dst, w, h, kernel) ==
    IF h >= 1 /\ 1 >= w THEN PassOutcome(dst, {}, TRUE)
    ELSE LET value(row_offset, x) ==
                 IF x = 0
                 THEN kernel[0] * src[row_offset] + kernel[1] * src[row_offset]
                      + kernel[2] * src[row_offset + 1]
                 ELSE IF x = w - 1
                 THEN (kernel[0] * src[row_offset + x - 1] + kernel[1] * src[row_offset + x]
                       + kernel[2] * src[row_offset + x]) \div 256
                 ELSE (kernel[0] * src[row_offset + x - 1] + kernel[1] * src[row_offset + x]
                       + kernel[2] * src[row_offset + Clamp(x + 1, 0, w - 1)]) \div 256
         IN  PassOutcome([j \in DOMAIN dst |-> value((j \div w) * w, j % w)], {}, FALSE)

\* horizontal_pass_5x5_fixed
Horizontal5x5(src, dst, w, h, kernel) ==
    PassOutcome([j \in DOMAIN dst |->
                     ClampedDot(src, (j \div w) * w, 1, j % w, w - 1, kernel) \div 256],
                {}, FALSE)

horizontal_pass_fixed(src, dst, w, h, kernel) ==
    IF VLen(kernel) = 3 THEN Horizontal3x3(src, dst, w, h, kernel)
    ELSE IF VLen(kernel) = 5 THEN Horizontal5x5(src, dst, w, h, kernel)
    ELSE HorizontalGeneralRows(src, PassOutcome(dst, {}, FALSE), w, h, kernel, 0)

\* the taps of the vertical convolution at (x, y): kernel[k] times
\* src[clamp(y + k - half, 0, height - 1) * width + x]
VerticalSum(src, w, h, kernel, x, y) ==
    LET half_kernel == VLen(kernel) \div 2
    IN  WideDot(kernel,
                [k_idx \in 0..(VLen(kernel) - 1) |->
                    src[Clamp(y + k_idx - half_kernel, 0, h - 1) * w + x]])

\* vertical_pass_fixed, the general case (kernel length not 3).  The SIMD
\* loop runs at x = 0 whatever the width: it loads 4 lanes of each tap row by
\* v128_load through a raw pointer, then stores dst_row[x] .. dst_row[x + 3]
\* with bounds checks, which panic for a width below 4.
VerticalGeneral(src, dst, w, h, kernel) ==
    LET half_kernel == VLen(kernel) \div 2
        simd_end == SaturatingSub(w, SIMD_WIDTH)
        tooWide == {x \in SimdXs(0, simd_end) : x + 3 >= w}
    IN  IF h >= 1 /\ tooWide # {}
        THEN LET x == CHOOSE v \in tooWide : \A u \in tooWide : v <= u
                 loads == {Clamp(0 + k_idx - half_kernel, 0, h - 1) * w + x + i :
                               k_idx \in 0..(VLen(kernel) - 1), i \in 0..3}
             IN  PassOutcome(dst, Outside("temp_buffer", "read", VLen(src), loads), TRUE)
        ELSE PassOutcome([j \in DOMAIN dst |->
                              ToU8(VerticalSum(src, w, h, kernel, j % w, j \div w))],
                         {}, FALSE)

\* vertical_pass_3x3_fixed: the first row reads src[width + x], which panics
\* for a height of 1
Vertical3x3(src, dst, w, h, kernel) ==
    IF w >= 1 /\ w + 0 >= VLen(src) THEN PassOutcome(dst, {}, TRUE)
    ELSE LET taps(x, y) ==
                 IF y = 0 THEN VecFrom(<<src[x], src[x], src[w + x]>>)
                 ELSE IF y = h - 1
                 THEN VecFrom(<<src[(y - 1) * w + x], src[y * w + x], src[y * w + x]>>)
                 ELSE VecFrom(<<src[(y - 1) * w + x], src[y * w + x], src[(y + 1) * w + x]>>)
         IN  PassOutcome([j \in DOMAIN dst |-> ToU8(WideDot(kernel, taps(j % w, j \div w)))],
                         {}, FALSE)

vertical_pass_fixed(src, dst, w, h, kernel) ==
    IF VLen(kernel) = 3 THEN Vertical3x3(src, dst, w, h, kernel)
    ELSE VerticalGeneral(src, dst, w, h, kernel)

(***************************************************************************)
(* gradient_calculation.rs                                                 *)
(***************************************************************************)
\* mutant of calculate_gradients: forward differences
calculate_gradients_Forward(img, w, h) ==
    [j \in 0..(2 * w * h - 1) |->
        LET idx == j \div 2
        IN  IF idx % w >= 1 /\ idx % w < w - 1 /\ idx \div w >= 1 /\ idx \div w < h - 1
            THEN IF j % 2 = 0 THEN img[idx + 1] - img[idx] ELSE img[idx + w] - img[idx]
            ELSE 0]

\* calculate_gradients: central differences at the inner pixels, gx at 2 * idx
\* and gy at 2 * idx + 1, zero elsewhere
calculate_gradients(img, w, h) ==
    [j \in 0..(2 * w * h - 1) |->
        LET idx == j \div 2
            x == idx % w
            y == idx \div w
        IN  IF x >= 1 /\ x < w - 1 /\ y >= 1 /\ y < h - 1
            THEN IF j % 2 = 0 THEN img[idx + 1] - img[idx - 1]
                 ELSE img[idx + w] - img[idx - w]
            ELSE 0]

(***************************************************************************)
(* non_maximum_suppression.rs                                              *)
(***************************************************************************)
Abs(v) == IF v < 0 THEN -v ELSE v

\* the magnitude of one pixel, held as its square: sqrt(gx * gx + gy * gy)
\* with the flag, gx.abs() + gy.abs() without; calculate_magnitude_simd and
\* the scalar loop give the same f32
Magnitude(gx, gy, l2) ==
    IF l2 THEN gx * gx + gy * gy ELSE (Abs(gx) + Abs(gy)) * (Abs(gx) + Abs(gy))

\* a > b * 2.4142 for i16 differences of u8 values (|a|, |b| <= 255), where
\* the f32 product is never within rounding of a
Steeper(a, b) == a * 10000 > b * 24142

\* mutant of NmsPair: the two diagonals exchanged
NmsPair_DiagonalsSwapped(gx, gy, idx, w) ==
    IF Steeper(Abs(gy), Abs(gx)) THEN <<idx - w, idx + w>>
    ELSE IF Steeper(Abs(gx), Abs(gy)) THEN <<idx - 1, idx + 1>>
    ELSE IF (gx > 0 /\ gy > 0) \/ (gx < 0 /\ gy < 0)
    THEN <<idx - w - 1, idx + w + 1>>
    ELSE <<idx - w + 1, idx + w - 1>>

\* the indices of neighbor1 and neighbor2 of the pixel idx
NmsPair(gx, gy, idx, w) ==
    IF Steeper(Abs(gy), Abs(gx)) THEN <<idx - w, idx + w>>
    ELSE IF Steeper(Abs(gx), Abs(gy)) THEN <<idx - 1, idx + 1>>
    ELSE IF (gx > 0 /\ gy > 0) \/ (gx < 0 /\ gy < 0)
    THEN <<idx - w + 1, idx + w - 1>>
    ELSE <<idx - w - 1, idx + w + 1>>

non_maximum_suppression(dx, dy, w, h, l2) ==
    LET magnitude == [i \in 0..(w * h - 1) |-> Magnitude(dx[i], dy[i], l2)]
        kept(idx) ==
            LET mag == magnitude[idx]
                gx == dx[idx]
                gy == dy[idx]
                along == NmsPair(gx, gy, idx, w)
            IN  IF mag = 0 THEN 0
                ELSE IF mag >= magnitude[along[1]] /\ mag >= magnitude[along[2]] THEN mag
                ELSE 0
    IN  [idx \in 0..(w * h - 1) |->
            IF idx % w >= 1 /\ idx % w < w - 1 /\ idx \div w >= 1 /\ idx \div w < h - 1
            THEN kept(idx) ELSE 0]

(***************************************************************************)
(* dilation.rs                                                             *)
(***************************************************************************)
\* the maximum of the values, starting from max_val = 0
MaxOf(values) == IF values = {} THEN 0 ELSE CHOOSE m \in values : \A v \in values : v <= m

\* the horizontal pass of dilate and of dilate_fast
DilateHorizontal(src, w, h, ks) ==
    LET half_kernel == ks \div 2
    IN  [j \in 0..(w * h - 1) |->
            MaxOf({src[(j \div w) * w + Clamp((j % w) + k - half_kernel, 0, w - 1)] :
                       k \in 0..(ks - 1)})]

\* one pixel of a vertical pass by the scalar code, ny clamped or not
VerticalMax(tmp, w, h, ks, x, y, clamped) ==
    LET half_kernel == ks \div 2
        ny(k) == IF clamped THEN Clamp(y + k - half_kernel, 0, h - 1) ELSE y + k - half_kernel
    IN  MaxOf({tmp[ny(k) * w + x] : k \in 0..(ks - 1)})

\* one pixel of a 16-pixel chunk of dilate_fast: the first load is the row
\* y - half_kernel, then the rows of k in 1..kernel_size
ChunkMax(tmp, w, ks, x, y) ==
    LET half_kernel == ks \div 2
    IN  MaxOf({tmp[(y - half_kernel) * w + x]}
              \cup {tmp[(y + k - half_kernel) * w + x] : k \in 1..(ks - 1)})

\* the vertical pass of dilate on other targets
DilateVerticalScalar(tmp, w, h, ks) ==
    [buf |-> [j \in 0..(w * h - 1) |-> VerticalMax(tmp, w, h, ks, j % w, j \div w, TRUE)],
     panicked |-> FALSE]

\* the vertical pass of dilate_fast: the rows 0..half_kernel, then
\* half_kernel..y_safe_end, then y_safe_end..height.  A row y >= height of
\* the first range panics at dilated[y * width + x].
DilateFastVertical(tmp, w, h, ks) ==
    LET half_kernel == ks \div 2
        x_chunks == w \div 16
        y_safe_end == SaturatingSub(h, half_kernel)
        pixel(x, y) ==
            IF y >= y_safe_end \/ y < half_kernel THEN VerticalMax(tmp, w, h, ks, x, y, TRUE)
            ELSE IF x < x_chunks * 16 THEN ChunkMax(tmp, w, ks, x, y)
            ELSE VerticalMax(tmp, w, h, ks, x, y, FALSE)
    IN  IF half_kernel > h /\ w >= 1
        THEN [buf |-> VecOf(w * h, 0), panicked |-> TRUE]
        ELSE [buf |-> [j \in 0..(w * h - 1) |-> pixel(j % w, j \div w)], panicked |-> FALSE]

DilateVertical(arch, tmp, w, h, ks) ==
    IF arch = "wasm32" THEN DilateFastVertical(tmp, w, h, ks)
    ELSE DilateVerticalScalar(tmp, w, h, ks)

\* a whole call of dilate
dilate(arch, src, w, h, ks) ==
    LET out == DilateVertical(arch, DilateHorizontal(src, w, h, ks), w, h, ks)
    IN  [aborted |-> out.panicked, value |-> out.buf]

(***************************************************************************)
(* hysteresis.rs                                                           *)
(***************************************************************************)
\* the order in which a row slice of length n is visited: chunks of 4, then
\* the remaining pixels
ChunkedIndices(n) ==
    LET chunk_size == 4
        chunks == n \div chunk_size
        remaining_start == chunks * chunk_size
    IN  [j \in 1..remaining_start |->
              ((j - 1) \div chunk_size) * chunk_size + ((j - 1) % chunk_size)]
        \o [j \in 1..(n - remaining_start) |-> remaining_start + j - 1]

\* mutant of InnerPixels: the loops run from 0 to the last row and column
InnerPixels_FromZero(w, h) ==
    [j \in 1..(w * h) |-> <<(j - 1) % w, (j - 1) \div w>>]

\* for y in 1..height - 1 { for x in 1..width - 1 { .. } }: the (x, y) visited
InnerPixels(w, h) ==
    IF w < 3 \/ h < 3 THEN << >>
    ELSE [j \in 1..((w - 2) * (h - 2)) |->
              <<1 + ((j - 1) % (w - 2)), 1 + ((j - 1) \div (w - 2))>>]

\* the (x, y) visited by hysteresis_thresholding's first pass, row slice by
\* row slice
RECURSIVE SlicedPixels(_, _, _)
SlicedPixels(w, h, y) ==
    IF y >= h - 1 THEN << >>
    ELSE LET row_start == y * w + 1
             row_end == y * w + w - 1
             order == ChunkedIndices(row_end - row_start)
         IN  [j \in 1..Len(order) |-> <<1 + order[j], y>>]
             \o SlicedPixels(w, h, y + 1)

\* &suppressed[row_start..row_end] and &mut edge_map[row_start..row_end] panic
\* when the range is reversed or ends past the slice
SlicePanics(len, w, h) ==
    \E y \in 1..(h - 2) :
        LET row_start == y * w + 1
            row_end == y * w + w - 1
        IN  row_start > row_end \/ row_end > len

\* the first pass over the pixels `order`, with the codes the function uses
\* for a weak and a non-edge pixel; strong is 2 in every implementation
FirstPass(s, w, h, low, high, order, weak, nonEdge) ==
    LET isStrong(p) == GeF32(s[p[2] * w + p[1]], high)
        isWeak(p) == ~isStrong(p) /\ GeF32(s[p[2] * w + p[1]], low)
        strong == {order[j][2] * w + order[j][1] : j \in {i \in 1..Len(order) : isStrong(order[i])}}
        weakSet == {order[j][2] * w + order[j][1] : j \in {i \in 1..Len(order) : isWeak(order[i])}}
    IN  [edge_map |-> [i \in 0..(w * h - 1) |->
                          IF i \in strong THEN 2 ELSE IF i \in weakSet THEN weak ELSE nonEdge],
         stack |-> SelectSeq(order, isStrong),
         binary |-> [i \in 0..(w * h - 1) |-> IF i \in strong THEN 255 ELSE 0]]

NeighborOffsets(w) == << -1 - 1 * w, 0 - 1 * w, 1 - 1 * w, -1, 1, -1 + 1 * w, 0 + 1 * w, 1 + 1 * w >>

\* for &offset in &neighbor_offsets { .. } of one popped (x, y), from the
\* k-th offset on
RECURSIVE VisitOffsets(_, _, _, _)
VisitOffsets(st, current_idx, w, k) ==
    IF k > 8 THEN st
    ELSE LET neighbor_idx == AsUsize(current_idx + NeighborOffsets(w)[k])
         IN  IF neighbor_idx < VLen(st.edge_map) /\ st.edge_map[neighbor_idx] = 0
             THEN VisitOffsets(
                      [edge_map |-> [st.edge_map EXCEPT ![neighbor_idx] = 2],
                       binary |-> [st.binary EXCEPT ![neighbor_idx] = 255],
                       stack |-> Append(st.stack, <<neighbor_idx % w, neighbor_idx \div w>>)],
                      current_idx, w, k + 1)
             ELSE VisitOffsets(st, current_idx, w, k + 1)

\* mutant of PopStep: a promoted neighbour is marked but not pushed
PopStep_NoPush(st, w) ==
    LET top == st.stack[Len(st.stack)]
        rest == SubSeq(st.stack, 1, Len(st.stack) - 1)
    IN  [VisitOffsets([st EXCEPT !.stack = rest], top[2] * w + top[1], w, 1)
             EXCEPT !.stack = rest]

\* one iteration of while let Some((x, y)) = stack.pop() in hysteresis.rs
PopStep(st, w) ==
    LET top == st.stack[Len(st.stack)]
        current_idx == top[2] * w + top[1]
    IN  VisitOffsets([st EXCEPT !.stack = SubSeq(st.stack, 1, Len(st.stack) - 1)],
                     current_idx, w, 1)

(***************************************************************************)
(* canny.rs: the pipeline's private hysteresis_thresholding                *)
(***************************************************************************)
CannyDeltas == << <<-1, -1>>, <<0, -1>>, <<1, -1>>, <<-1, 0>>, <<1, 0>>,
                  <<-1, 1>>, <<0, 1>>, <<1, 1>> >>

\* for dy in -1..=1 { for dx in -1..=1 { .. } } of one popped (x, y), from
\* the k-th (dx, dy) on; dx == 0 && dy == 0 is skipped
RECURSIVE CannyVisit(_, _, _, _, _, _)
CannyVisit(st, x, y, w, h, k) ==
    IF k > 8 THEN st
    ELSE LET nx == AsUsize(x + CannyDeltas[k][1])
             ny == AsUsize(y + CannyDeltas[k][2])
             neighbor_idx == ny * w + nx
         IN  IF nx > 0 /\ nx < w /\ ny > 0 /\ ny < h /\ st.edge_map[neighbor_idx] = 1
             THEN CannyVisit(
                      [st EXCEPT !.edge_map = [st.edge_map EXCEPT ![neighbor_idx] = 2],
                                 !.stack = Append(st.stack, <<nx, ny>>)],
                      x, y, w, h, k + 1)
             ELSE CannyVisit(st, x, y, w, h, k + 1)

\* one iteration of while let Some((x, y)) = stack.pop() in canny.rs
CannyPopStep(st, w, h) ==
    LET top == st.stack[Len(st.stack)]
    IN  CannyVisit([st EXCEPT !.stack = SubSeq(st.stack, 1, Len(st.stack) - 1)],
                   top[1], top[2], w, h, 1)

\* mutant of FinalEdges: 255 where the map holds 1 or 2
FinalEdges_WeakToo(em) == [i \in DOMAIN em |-> IF em[i] >= 1 THEN 255 ELSE 0]

\* the final loop of canny.rs: 255 where the map holds 2
FinalEdges(em) == [i \in DOMAIN em |-> IF em[i] = 2 THEN 255 ELSE 0]

(***************************************************************************)
(* The three hysteresis functions, run step by step.                       *)
(***************************************************************************)
HystEntries == {"hysteresis_thresholding", "hysteresis_thresholding_binary",
                "canny_hysteresis_thresholding"}

HystFirstPass(e, s, w, h, low, high) ==
    IF e = "hysteresis_thresholding"
    THEN FirstPass(s, w, h, low, high, SlicedPixels(w, h, 1), 0, 1)
    ELSE IF e = "hysteresis_thresholding_binary"
    THEN FirstPass(s, w, h, low, high, InnerPixels(w, h), 0, 1)
    ELSE [FirstPass(s, w, h, low, high, InnerPixels(w, h), 1, 0)
              EXCEPT !.binary = VecOf(0, 0)]

HystFirstPassPanics(e, s, w, h) ==
    IF e = "hysteresis_thresholding"
    THEN SlicePanics(VLen(s), w, h)
    ELSE \E j \in 1..Len(InnerPixels(w, h)) :
             InnerPixels(w, h)[j][2] * w + InnerPixels(w, h)[j][1] >= VLen(s)

\* mutant of HystPopStep: a weak neighbour is pushed but not marked
HystPopStep_PushUnmarked(e, st, w, h) ==
    LET out == IF e = "canny_hysteresis_thresholding" THEN CannyPopStep(st, w, h)
               ELSE PopStep(st, w)
    IN  [out EXCEPT !.edge_map = st.edge_map, !.binary = st.binary]

\* mutant of HystPopStep: every neighbour inside the image that is not yet
\* Strong is promoted and pushed, Weak or not
HystPopStep_PromotesNonEdge(e, st, w, h) ==
    LET top == st.stack[Len(st.stack)]
        at(k) == <<top[1] + CannyDeltas[k][1], top[2] + CannyDeltas[k][2]>>
        inside(p) == p[1] >= 0 /\ p[1] < w /\ p[2] >= 0 /\ p[2] < h
        taken(p) == inside(p) /\ st.edge_map[p[2] * w + p[1]] # 2
        found == SelectSeq([k \in 1..8 |-> at(k)], taken)
        marked == {found[j][2] * w + found[j][1] : j \in 1..Len(found)}
    IN  [edge_map |-> [i \in DOMAIN st.edge_map |-> IF i \in marked THEN 2 ELSE st.edge_map[i]],
         binary |-> IF e = "hysteresis_thresholding_binary"
                    THEN [i \in DOMAIN st.binary |-> IF i \in marked THEN 255 ELSE st.binary[i]]
                    ELSE st.binary,
         stack |-> SubSeq(st.stack, 1, Len(st.stack) - 1) \o found]

\* mutant of HystPopStep: the popped pixel is cleared to non-edge
HystPopStep_ClearsPopped(e, st, w, h) ==
    LET out == IF e = "canny_hysteresis_thresholding" THEN CannyPopStep(st, w, h)
               ELSE IF e = "hysteresis_thresholding_binary" THEN PopStep(st, w)
               ELSE [PopStep(st, w) EXCEPT !.binary = st.binary]
        top == st.stack[Len(st.stack)]
    IN  [out EXCEPT !.edge_map[top[2] * w + top[1]] =
                        IF e = "canny_hysteresis_thresholding" THEN 0 ELSE 1]

\* mutant of HystPopStep: the neighbours of a popped entry are visited only
\* when no other entry is pending
HystPopStep_OnlyWhenLast(e, st, w, h) ==
    IF Len(st.stack) > 1 THEN [st EXCEPT !.stack = SubSeq(st.stack, 1, Len(st.stack) - 1)]
    ELSE IF e = "canny_hysteresis_thresholding" THEN CannyPopStep(st, w, h)
    ELSE IF e = "hysteresis_thresholding_binary" THEN PopStep(st, w)
    ELSE [PopStep(st, w) EXCEPT !.binary = st.binary]

HystPopStep(e, st, w, h) ==
    IF e = "canny_hysteresis_thresholding"
    THEN CannyPopStep(st, w, h)
    ELSE IF e = "hysteresis_thresholding_binary"
    THEN PopStep(st, w)
    ELSE [PopStep(st, w) EXCEPT !.binary = st.binary]

HystResult(e, st) ==
    IF e = "hysteresis_thresholding" THEN st.edge_map
    ELSE IF e = "hysteresis_thresholding_binary" THEN st.binary
    ELSE FinalEdges(st.edge_map)

HystState == [edge_map |-> edge_map, stack |-> stack, binary |-> binary]

\* the push counts after the entries of `entries` were pushed
Pushes(entries, w, counts) ==
    [i \in DOMAIN counts |->
        counts[i] + Cardinality({j \in 1..Len(entries) : entries[j][2] * w + entries[j][1] = i})]

\* the hysteresis function running: the entry point itself, or the private
\* hysteresis_thresholding of canny.rs called by canny_edge_detector_full
\* with the adjusted thresholds
HystCallee ==
    IF entry = "canny_edge_detector_full" THEN "canny_hysteresis_thresholding" ELSE entry
HystLow == IF entry = "canny_edge_detector_full" THEN final_low_threshold ELSE low_threshold
HystHigh == IF entry = "canny_edge_detector_full" THEN final_high_threshold ELSE high_threshold

HystThreshold ==
    /\ pc = "hyst_threshold"
    /\ IF HystFirstPassPanics(HystCallee, suppressed, width, height)
       THEN /\ pc' = "abort"
            /\ UNCHANGED <<edge_map, stack, binary, pushed>>
       ELSE LET st == HystFirstPass(HystCallee, suppressed, width, height,
                                    HystLow, HystHigh)
            IN  /\ edge_map' = st.edge_map
                /\ stack' = st.stack
                /\ binary' = st.binary
                /\ pushed' = Pushes(st.stack, width, VecOf(width * height, 0))
                /\ pc' = "hyst_grow"
    /\ UNCHANGED <<callVars, blurArgs, blurVars, cannyArgs, cannyVars, hystArgs,
                   dilateVars, ret>>

HystPop ==
    /\ pc = "hyst_grow"
    /\ stack # << >>
    /\ LET st == HystPopStep(HystCallee, HystState, width, height)
       IN  /\ edge_map' = st.edge_map
           /\ stack' = st.stack
           /\ binary' = st.binary
           /\ pushed' = Pushes(SubSeq(st.stack, Len(stack), Len(st.stack)), width, pushed)
    /\ UNCHANGED <<callVars, pc, blurArgs, blurVars, cannyArgs, cannyVars, hystArgs,
                   dilateVars, ret>>

\* The growth loop with the pending entries removed in any order: the k-th
\* entry is taken instead of the last one, and its neighbours are visited as
\* the source visits those of the entry it pops.
HystPopAny ==
    /\ pc = "hyst_grow"
    /\ \E k \in 1..Len(stack) :
          LET taken == [HystState EXCEPT
                           !.stack = SubSeq(stack, 1, k - 1) \o SubSeq(stack, k + 1, Len(stack))
                                     \o <<stack[k]>>]
              st == HystPopStep(HystCallee, taken, width, height)
          IN  /\ edge_map' = st.edge_map
              /\ stack' = st.stack
              /\ binary' = st.binary
              /\ pushed' = Pushes(SubSeq(st.stack, Len(stack), Len(st.stack)), width, pushed)
    /\ UNCHANGED <<callVars, pc, blurArgs, blurVars, cannyArgs, cannyVars, hystArgs,
                   dilateVars, ret>>

HystReturn ==
    /\ pc = "hyst_grow"
    /\ stack = << >>
    /\ IF entry = "canny_edge_detector_full"
       THEN /\ canny_edges' = HystResult(HystCallee, HystState)
            /\ stages' = Append(stages, "hysteresis")
            /\ pc' = IF apply_dilation THEN "dilate" ELSE "return"
            /\ UNCHANGED ret
       ELSE /\ ret' = HystResult(HystCallee, HystState)
            /\ pc' = "done"
            /\ UNCHANGED <<canny_edges, stages>>
    /\ UNCHANGED <<callVars, blurArgs, blurVars, cannyArgs, blurred, dx_i16, dy_i16,
                   final_low_threshold, final_high_threshold, hystArgs, hystVars,
                   dilateVars>>

(***************************************************************************)
(* blur, step by step.                                                     *)
(***************************************************************************)
\* the two input checks of blur, each of which panics
BlurInputInvalid_NoLength(len, w, h, ks) == ks = 0 \/ ks % 2 = 0
BlurInputInvalid(len, w, h, ks) == len # w * h \/ ks = 0 \/ ks % 2 = 0

BlurEntries == {"blur", "canny_edge_detector_full"}

BlurValidate ==
    /\ pc = "blur_validate"
    /\ pc' = IF BlurInputInvalid(VLen(grayscale), width, height, kernel_size)
             THEN "abort" ELSE "blur_setup"
    /\ UNCHANGED <<callVars, blurArgs, blurVars, cannyArgs, cannyVars, hystArgs,
                   hystVars, dilateVars, ret>>

\* the default sigma, the kernel and the two buffers
BlurSetup ==
    /\ pc = "blur_setup"
    /\ sigma' = IF SigmaNotPositive(sigma) THEN DefaultSigma(kernel_size) ELSE sigma
    /\ kernel_fixed' = create_gaussian_kernel_fixed(kernel_size, sigma')
    /\ temp_buffer' = VecOf(width * height, 0)
    /\ result' = VecOf(width * height, 0)
    /\ allocated' = allocated \cup {"kernel_fixed", "temp_buffer", "result"}
    /\ pc' = "blur_horizontal"
    /\ UNCHANGED <<callVars, blurArgs, oob, cannyArgs, cannyVars, hystArgs, hystVars,
                   dilateVars, ret>>

\* A store past the end of temp_buffer is undefined behaviour: it traps when
\* it leaves the linear memory and otherwise overwrites what follows the
\* buffer there, and the call goes on.
BlurHorizontal ==
    /\ pc = "blur_horizontal"
    /\ LET out == horizontal_pass_fixed(grayscale, temp_buffer, width, height, kernel_fixed)
       IN  IF out.panicked
           THEN pc' = "abort" /\ UNCHANGED <<temp_buffer, oob>>
           ELSE /\ temp_buffer' = out.buf
                /\ oob' = oob \cup out.oob
                /\ pc' \in (IF out.oob = {} THEN {"blur_vertical"}
                            ELSE {"blur_vertical", "abort"})
    /\ UNCHANGED <<callVars, blurArgs, sigma, kernel_fixed, result, allocated, cannyArgs,
                   cannyVars, hystArgs, hystVars, dilateVars, ret>>

\* the vertical pass and the return of result, to the host or to
\* canny_edge_detector_full
BlurVertical ==
    /\ pc = "blur_vertical"
    /\ LET out == vertical_pass_fixed(temp_buffer, result, width, height, kernel_fixed)
       IN  /\ oob' = oob \cup out.oob
           /\ IF out.panicked
              THEN pc' = "abort" /\ UNCHANGED <<result, ret, blurred, stages>>
              ELSE /\ result' = out.buf
                   /\ IF entry = "blur"
                      THEN ret' = out.buf /\ pc' = "done" /\ UNCHANGED <<blurred, stages>>
                      ELSE /\ blurred' = out.buf
                           /\ stages' = Append(stages, "blur")
                           /\ pc' = "gradients"
                           /\ UNCHANGED ret
    /\ UNCHANGED <<callVars, blurArgs, sigma, kernel_fixed, temp_buffer, allocated,
                   cannyArgs, dx_i16, dy_i16, final_low_threshold, final_high_threshold,
                   canny_edges, hystArgs, hystVars, dilateVars>>

(***************************************************************************)
(* canny_edge_detector_full after blur, stage by stage.                    *)
(***************************************************************************)
\* the image handed to calculate_gradients
GradientInput_Grayscale == grayscale
GradientInput == blurred

CannyGradients ==
    /\ pc = "gradients"
    /\ LET gradients == calculate_gradients(GradientInput, width, height)
       IN  /\ dx_i16' = [i \in 0..(width * height - 1) |-> gradients[2 * i]]
           /\ dy_i16' = [i \in 0..(width * height - 1) |-> gradients[2 * i + 1]]
    /\ stages' = Append(stages, "gradients")
    /\ pc' = "nms"
    /\ UNCHANGED <<callVars, blurArgs, blurVars, cannyArgs, blurred, final_low_threshold,
                   final_high_threshold, canny_edges, hystArgs, hystVars, dilateVars, ret>>

CannyNms ==
    /\ pc = "nms"
    /\ suppressed' = non_maximum_suppression(dx_i16, dy_i16, width, height, l2_gradient)
    /\ stages' = Append(stages, "non_maximum_suppression")
    /\ pc' = "thresholds"
    /\ UNCHANGED <<callVars, blurArgs, blurVars, cannyArgs, blurred, dx_i16, dy_i16,
                   final_low_threshold, final_high_threshold, canny_edges,
                   low_threshold, high_threshold, hystVars, dilateVars, ret>>

CannyThresholds ==
    /\ pc = "thresholds"
    /\ final_low_threshold' =
           IF l2_gradient THEN low_threshold * low_threshold ELSE low_threshold
    /\ final_high_threshold' =
           IF l2_gradient THEN high_threshold * high_threshold ELSE high_threshold
    /\ stages' = Append(stages, "thresholds")
    /\ pc' = "hyst_threshold"
    /\ UNCHANGED <<callVars, blurArgs, blurVars, cannyArgs, blurred, dx_i16, dy_i16,
                   canny_edges, hystArgs, hystVars, dilateVars, ret>>

CannyDilate ==
    /\ pc = "dilate"
    /\ LET out == dilate(target_arch, canny_edges, width, height, dilation_kernel_size)
       IN  IF out.aborted
           THEN pc' = "abort" /\ UNCHANGED <<canny_edges, stages>>
           ELSE /\ canny_edges' = out.value
                /\ stages' = Append(stages, "dilation")
                /\ pc' = "return"
    /\ UNCHANGED <<callVars, blurArgs, blurVars, cannyArgs, blurred, dx_i16, dy_i16,
                   final_low_threshold, final_high_threshold, hystArgs, hystVars,
                   dilateVars, ret>>

CannyReturn ==
    /\ pc = "return"
    /\ ret' = canny_edges
    /\ pc' = "done"
    /\ UNCHANGED <<callVars, blurArgs, blurVars, cannyArgs, cannyVars, hystArgs, hystVars,
                   dilateVars>>

(***************************************************************************)
(* dilate called by the host, pass by pass.                                *)
(***************************************************************************)
DilateHorizontalPass ==
    /\ pc = "dilate_horizontal"
    /\ temp' = DilateHorizontal(edges, width, height, kernel_size)
    /\ pc' = "dilate_vertical"
    /\ UNCHANGED <<callVars, blurArgs, blurVars, cannyArgs, cannyVars, hystArgs, hystVars,
                   edges, ret>>

DilateVerticalPass ==
    /\ pc = "dilate_vertical"
    /\ LET out == DilateVertical(target_arch, temp, width, height, kernel_size)
       IN  IF out.panicked
           THEN pc' = "abort" /\ UNCHANGED ret
           ELSE ret' = out.buf /\ pc' = "done"
    /\ UNCHANGED <<callVars, blurArgs, blurVars, cannyArgs, cannyVars, hystArgs, hystVars,
                   dilateVars>>

(***************************************************************************)
(* calculate_gradients and non_maximum_suppression called by the host.     *)
(***************************************************************************)
GradientsCall ==
    /\ pc = "calculate_gradients"
    /\ ret' = calculate_gradients(blurred, width, height)
    /\ pc' = "done"
    /\ UNCHANGED <<callVars, blurArgs, blurVars, cannyArgs, cannyVars, hystArgs, hystVars,
                   dilateVars>>

NmsCall ==
    /\ pc = "non_maximum_suppression"
    /\ ret' = non_maximum_suppression(dx_i16, dy_i16, width, height, l2_gradient)
    /\ pc' = "done"
    /\ UNCHANGED <<callVars, blurArgs, blurVars, cannyArgs, cannyVars, hystArgs, hystVars,
                   dilateVars>>

(***************************************************************************)
(* Inputs.                                                                 *)
(***************************************************************************)
\* the fields of n pixels that differ from a constant field in at most k
\* pixels
RECURSIVE SparseFields(_, _, _)
SparseFields(n, k, values) ==
    IF k = 0 THEN {VecOf(n, v) : v \in values}
    ELSE LET prev == SparseFields(n, k - 1, values)
         IN  prev \cup {[f EXCEPT ![i] = v] : f \in prev, i \in 0..(n - 1), v \in values}

\* the variables of the entry points that were not called
NoBlur ==
    /\ grayscale = << >> /\ kernel_size = 0 /\ sigma = <<0, 0>>
    /\ kernel_fixed = << >> /\ temp_buffer = << >> /\ result = << >>
    /\ allocated = {} /\ oob = {}
NoCanny ==
    /\ l2_gradient = FALSE /\ apply_dilation = FALSE /\ dilation_kernel_size = 0
    /\ blurred = << >> /\ dx_i16 = << >> /\ dy_i16 = << >>
    /\ final_low_threshold = 0 /\ final_high_threshold = 0
    /\ canny_edges = << >> /\ stages = << >>
NoHyst ==
    /\ suppressed = << >> /\ low_threshold = 0 /\ high_threshold = 0
    /\ edge_map = << >> /\ stack = << >> /\ binary = << >> /\ pushed = << >>
NoDilate == edges = << >> /\ temp = << >>

InitHyst ==
    /\ width \in 1..MaxPixels
    /\ height \in 1..(MaxPixels \div width)
    /\ suppressed \in SparseFields(width * height, MaxLit, Mags)
    /\ \E t \in ThresholdPairs : low_threshold = t[1] /\ high_threshold = t[2]
    /\ entry \in HystEntries
    /\ pc = "hyst_threshold"
    /\ edge_map = << >>
    /\ stack = << >>
    /\ binary = << >>
    /\ pushed = << >>
    /\ ret = << >>
    /\ target_arch = "wasm32"
    /\ NoBlur /\ NoCanny /\ NoDilate

NextHyst == HystThreshold \/ HystPop \/ HystReturn

SpecHyst == InitHyst /\ [][NextHyst]_vars

\* the same calls with the growth loop taking its entries in any order
NextGrow == HystThreshold \/ HystPopAny \/ HystReturn

InitGrow == InitHyst /\ width * height <= MaxGrowPixels

SpecGrow == InitGrow /\ [][NextGrow]_vars

\* blur called by the host: every shape of at most MaxBlurPixels pixels, every
\* kernel_size up to MaxKernelSize (zero and even ones too), a sigma of 0.0
\* (which selects the default), 1.0 or 1e-30, and an input of the right
\* length, one byte longer or one byte shorter
Sigmas == {<<0, 0>>, <<10, -1>>, <<1, -30>>}
Pix == {0, 255}

Images(w, h) ==
    SparseFields(w * h, MaxLit, Pix) \cup {VecOf(w * h + 1, 0), VecOf(w * h - 1, 0)}

InitBlur ==
    /\ entry = "blur"
    /\ target_arch = "wasm32"
    /\ width \in 1..MaxBlurPixels
    /\ height \in 1..(MaxBlurPixels \div width)
    /\ grayscale \in Images(width, height)
    /\ kernel_size \in 0..MaxKernelSize
    /\ sigma \in Sigmas
    /\ pc = "blur_validate"
    /\ kernel_fixed = << >> /\ temp_buffer = << >> /\ result = << >>
    /\ allocated = {} /\ oob = {}
    /\ ret = << >>
    /\ NoCanny /\ NoHyst /\ NoDilate

\* canny_edge_detector_full called by the host: shapes up to MaxCannyWidth by
\* MaxCannyHeight, the kernel sizes 0..3, the default sigma, thresholds that
\* the magnitudes met (up to 510) fall below, between and above, both norms,
\* and dilation off or on with a kernel of 1, 3 or 4
CannyThresholdPairs == {<<20, 40>>, <<300, 400>>}
DilationArgs == {<<FALSE, 3>>, <<TRUE, 1>>, <<TRUE, 3>>, <<TRUE, 4>>}

InitCanny ==
    /\ entry = "canny_edge_detector_full"
    /\ target_arch = "wasm32"
    /\ width \in 1..MaxCannyWidth
    /\ height \in 1..MaxCannyHeight
    /\ grayscale \in Images(width, height)
    /\ kernel_size \in 0..3
    /\ sigma = <<0, 0>>
    /\ \E t \in CannyThresholdPairs : low_threshold = t[1] /\ high_threshold = t[2]
    /\ l2_gradient \in BOOLEAN
    /\ \E d \in DilationArgs : apply_dilation = d[1] /\ dilation_kernel_size = d[2]
    /\ pc = "blur_validate"
    /\ kernel_fixed = << >> /\ temp_buffer = << >> /\ result = << >>
    /\ allocated = {} /\ oob = {}
    /\ blurred = << >> /\ dx_i16 = << >> /\ dy_i16 = << >>
    /\ final_low_threshold = 0 /\ final_high_threshold = 0
    /\ canny_edges = << >> /\ stages = << >>
    /\ suppressed = << >>
    /\ edge_map = << >> /\ stack = << >> /\ binary = << >> /\ pushed = << >>
    /\ ret = << >>
    /\ NoDilate

Init == InitBlur \/ InitCanny

Next ==
    \/ BlurValidate \/ BlurSetup \/ BlurHorizontal \/ BlurVertical
    \/ CannyGradients \/ CannyNms \/ CannyThresholds
    \/ HystThreshold \/ HystPop \/ HystReturn
    \/ CannyDilate \/ CannyReturn

Spec == Init /\ [][Next]_vars

\* dilate called by the host, built for wasm32 (dilate_fast) or for another
\* target (the scalar passes)
MaskValues == {0, 100, 255}

InitDilate ==
    /\ entry = "dilate"
    /\ target_arch \in {"wasm32", "other"}
    /\ width \in 1..MaxDilatePixels
    /\ height \in 1..(MaxDilatePixels \div width)
    /\ edges \in SparseFields(width * height, MaxLit, MaskValues)
    /\ kernel_size \in 1..MaxDilateKernel
    /\ pc = "dilate_horizontal"
    /\ temp = << >>
    /\ ret = << >>
    /\ grayscale = << >> /\ sigma = <<0, 0>>
    /\ kernel_fixed = << >> /\ temp_buffer = << >> /\ result = << >>
    /\ allocated = {} /\ oob = {}
    /\ NoCanny /\ NoHyst

NextDilate == DilateHorizontalPass \/ DilateVerticalPass

SpecDilate == InitDilate /\ [][NextDilate]_vars

\* calculate_gradients called by the host on an image of at most
\* MaxStagePixels pixels
GradPix == {0, 100, 255}

InitGradients ==
    /\ entry = "calculate_gradients"
    /\ target_arch = "wasm32"
    /\ width \in 1..MaxStagePixels
    /\ height \in 1..(MaxStagePixels \div width)
    /\ blurred \in SparseFields(width * height, MaxLit, GradPix)
    /\ pc = "calculate_gradients"
    /\ ret = << >>
    /\ l2_gradient = FALSE /\ apply_dilation = FALSE /\ dilation_kernel_size = 0
    /\ dx_i16 = << >> /\ dy_i16 = << >>
    /\ final_low_threshold = 0 /\ final_high_threshold = 0
    /\ canny_edges = << >> /\ stages = << >>
    /\ NoBlur /\ NoHyst /\ NoDilate

\* non_maximum_suppression called by the host: the gradient (dx, dy) is the
\* same at every pixel but at most MaxLit of them, and is a difference of two
\* bytes; the directions drawn fall in each of the four sectors
GradPairs == {<<0, 0>>, <<100, 0>>, <<0, -100>>, <<100, 100>>, <<-100, 100>>, <<255, -255>>}

InitNms ==
    /\ entry = "non_maximum_suppression"
    /\ target_arch = "wasm32"
    /\ width \in 1..MaxStagePixels
    /\ height \in 1..(MaxStagePixels \div width)
    /\ \E g \in SparseFields(width * height, MaxLit, GradPairs) :
          /\ dx_i16 = [i \in DOMAIN g |-> g[i][1]]
          /\ dy_i16 = [i \in DOMAIN g |-> g[i][2]]
    /\ l2_gradient \in BOOLEAN
    /\ pc = "non_maximum_suppression"
    /\ ret = << >>
    /\ apply_dilation = FALSE /\ dilation_kernel_size = 0
    /\ blurred = << >>
    /\ final_low_threshold = 0 /\ final_high_threshold = 0
    /\ canny_edges = << >> /\ stages = << >>
    /\ NoBlur /\ NoHyst /\ NoDilate

InitStages == InitGradients \/ InitNms

NextStages == GradientsCall \/ NmsCall

SpecStages == InitStages /\ [][NextStages]_vars

(***************************************************************************)
(* Whole runs of the hysteresis functions, and edge_map_to_binary.         *)
(***************************************************************************)
\* the growth pass run until the stack is empty
RECURSIVE Grow(_, _, _, _)
Grow(e, st, w, h) ==
    IF st.stack = << >> THEN st ELSE Grow(e, HystPopStep(e, st, w, h), w, h)

\* a call of hysteresis function e: whether it panicked, and what it returned
RunHyst(e, s, w, h, low, high) ==
    IF HystFirstPassPanics(e, s, w, h)
    THEN [aborted |-> TRUE, value |-> << >>]
    ELSE [aborted |-> FALSE,
          value |-> HystResult(e, Grow(e, HystFirstPass(e, s, w, h, low, high), w, h))]

\* chunks of 8, then the remaining pixels: 255 where the map holds 2
edge_map_to_binary(em) ==
    LET chunk_size == 8
        chunks == VLen(em) \div chunk_size
        remaining_start == chunks * chunk_size
        inChunks == [idx \in 0..(remaining_start - 1) |-> IF em[idx] = 2 THEN 255 ELSE 0]
        rest == [i \in remaining_start..(VLen(em) - 1) |-> IF em[i] = 2 THEN 255 ELSE 0]
    IN  [i \in 0..(VLen(em) - 1) |-> IF i < remaining_start THEN inChunks[i] ELSE rest[i]]

(***************************************************************************)
(* Geometry used to state the claims.                                      *)
(***************************************************************************)
XOf(i, w) == i % w
YOf(i, w) == i \div w
AbsDiff(a, b) == IF a >= b THEN a - b ELSE b - a
Adjacent8(i, j, w) ==
    i # j /\ AbsDiff(XOf(i, w), XOf(j, w)) <= 1 /\ AbsDiff(YOf(i, w), YOf(j, w)) <= 1
InteriorOf(w, h) ==
    {i \in 0..(w * h - 1) : XOf(i, w) >= 1 /\ XOf(i, w) <= w - 2
                            /\ YOf(i, w) >= 1 /\ YOf(i, w) <= h - 2}
BorderOf(w, h) == (0..(w * h - 1)) \ InteriorOf(w, h)

\* the pixels of `allowed` joined to `cur` by a chain of 8-adjacent pixels of
\* `allowed`
RECURSIVE Flood(_, _, _)
Flood(cur, allowed, w) ==
    LET next == cur \cup {q \in allowed : \E p \in cur : Adjacent8(p, q, w)}
    IN  IF next = cur THEN cur ELSE Flood(next, allowed, w)

AtLeastLow == {i \in DOMAIN suppressed : GeF32(suppressed[i], low_threshold)}
AtLeastHigh == {i \in DOMAIN suppressed : GeF32(suppressed[i], high_threshold)}
BinaryDone == entry = "hysteresis_thresholding_binary" /\ pc = "done"
TriStateDone == entry = "hysteresis_thresholding" /\ pc = "done"

C2_RoundTrip ==
    (entry = "hysteresis_thresholding_binary" /\ pc \in {"done", "abort"}) =>
        LET tri == RunHyst("hysteresis_thresholding", suppressed, width, height,
                           low_threshold, high_threshold)
        IN  /\ tri.aborted <=> (pc = "abort")
            /\ pc = "done" => edge_map_to_binary(tri.value) = ret

BlurOver == entry = "blur" /\ pc \in {"done", "abort"}

\* C4, as claimed: blur with kernel_size = 1 returns its input byte for
\* byte, for every width >= 1, height >= 1 and every sigma.  The code panics
\* for a width below 4, and returns zeros for a sigma whose square underflows.
C4_KernelOneIdentity ==
    (BlurOver /\ kernel_size = 1 /\ VLen(grayscale) = width * height)
        => (pc = "done" /\ ret = grayscale)

\* C5, as claimed: for a width >= 1, a height >= 1, an input of
\* width * height bytes and an odd kernel_size, blur does not panic, makes no
\* access past the end of a buffer and returns width * height bytes.
C5_BlurCompletesInBounds ==
    (entry = "blur" /\ VLen(grayscale) = width * height /\ kernel_size % 2 = 1)
        => /\ pc # "abort"
           /\ oob = {}
           /\ (pc = "done" => VLen(ret) = width * height)

\* the inputs blur rejects
RejectedInput ==
    VLen(grayscale) # width * height \/ kernel_size = 0 \/ kernel_size % 2 = 0

\* C6: when the input length differs from width * height or kernel_size is
\* zero or even, blur, called by the host or as the first step of
\* canny_edge_detector_full, panics at its input checks: the call is at those
\* checks or has aborted, no kernel or buffer was allocated or written, no
\* later stage has run and nothing was returned.
C6_RejectsBeforeAllocating ==
    (entry \in BlurEntries /\ RejectedInput)
        => /\ pc \in {"blur_validate", "abort"}
           /\ allocated = {} /\ oob = {}
           /\ kernel_fixed = << >> /\ temp_buffer = << >> /\ result = << >>
           /\ blurred = << >> /\ stages = << >> /\ suppressed = << >>
           /\ canny_edges = << >> /\ ret = << >>

\* the full pipeline has aborted on an input one byte short
C6_Witness ==
    /\ entry = "canny_edge_detector_full"
    /\ pc = "abort"
    /\ VLen(grayscale) = width * height - 1
    /\ kernel_size = 3

(***************************************************************************)
(* Claims about dilate.                                                    *)
(***************************************************************************)
\* dilate has returned or panicked
DilateOver == entry = "dilate" /\ pc \in {"done", "abort"}

\* C7, as claimed: for every mask and every kernel_size >= 1 dilate returns
\* a mask of the length of its input whose 255-valued pixels include those of
\* the input.  Built for wasm32 it panics when kernel_size / 2 > height.
C7_DilateSuperset ==
    (DilateOver /\ kernel_size >= 1)
        => /\ pc = "done"
           /\ VLen(ret) = VLen(edges)
           /\ \A i \in DOMAIN edges : edges[i] = 255 => ret[i] = 255

\* the maximum of the mask over the clamped kernel_size by kernel_size window
\* of the pixel j
WindowMax(mask, w, h, ks, j) ==
    MaxOf({mask[Clamp((j \div w) + r - ks \div 2, 0, h - 1) * w
                + Clamp((j % w) + k - ks \div 2, 0, w - 1)] :
               k \in 0..(ks - 1), r \in 0..(ks - 1)})

\* some 255 pixel of the mask lies within Chebyshev distance d of the pixel j
Near255(mask, w, d, j) ==
    \E i \in DOMAIN mask :
        /\ mask[i] = 255
        /\ AbsDiff(XOf(i, w), XOf(j, w)) <= d
        /\ AbsDiff(YOf(i, w), YOf(j, w)) <= d

\* C8, as claimed: for every mask and every kernel_size >= 1 dilate returns,
\* at every pixel, the maximum of the input over the clamped window; a
\* kernel_size of 1 gives the input back, and for an odd kernel_size a pixel
\* is 255 exactly when a 255 pixel lies within Chebyshev distance
\* kernel_size / 2.  Built for wasm32 it panics when kernel_size / 2 > height.
C8_DilateWindowMax ==
    (DilateOver /\ kernel_size >= 1)
        => /\ pc = "done"
           /\ \A j \in DOMAIN edges : ret[j] = WindowMax(edges, width, height, kernel_size, j)
           /\ kernel_size = 1 => ret = edges
           /\ kernel_size % 2 = 1 =>
                  \A j \in DOMAIN edges :
                      ret[j] = 255 <=> Near255(edges, width, kernel_size \div 2, j)

(***************************************************************************)
(* Claims about canny_edge_detector_full.                                  *)
(***************************************************************************)
\* C9, as claimed: the first pass of the hysteresis of the full pipeline
\* classifies a pixel that survived suppression, with the L2 flag, Strong
\* exactly when dx^2 + dy^2 >= high^2 and Weak exactly when
\* low^2 <= dx^2 + dy^2 < high^2, and without it by |dx| + |dy| against the
\* thresholds as given.  The code compares sqrt(dx^2 + dy^2) with high^2.
C9_SquaredAgainstSquared ==
    [][(entry = "canny_edge_detector_full" /\ pc = "hyst_threshold" /\ pc' = "hyst_grow")
        => \A idx \in DOMAIN suppressed :
               suppressed[idx] # 0 =>
                   LET n == IF l2_gradient
                            THEN dx_i16[idx] * dx_i16[idx] + dy_i16[idx] * dy_i16[idx]
                            ELSE Abs(dx_i16[idx]) + Abs(dy_i16[idx])
                       low == IF l2_gradient THEN low_threshold * low_threshold
                              ELSE low_threshold
                       high == IF l2_gradient THEN high_threshold * high_threshold
                               ELSE high_threshold
                   IN  /\ edge_map'[idx] = 2 <=> n >= high
                       /\ edge_map'[idx] = 1 <=> (low <= n /\ n < high)]_vars

\* the stages of the pipeline, in the order of the source
StageOrder ==
    <<"blur", "gradients", "non_maximum_suppression", "thresholds", "hysteresis", "dilation">>

\* the number of stages finished when the call is at pc
StagesBefore(p) ==
    CASE p \in {"blur_validate", "blur_setup", "blur_horizontal", "blur_vertical"} -> {0}
      [] p = "gradients" -> {1}
      [] p = "nms" -> {2}
      [] p = "thresholds" -> {3}
      [] p \in {"hyst_threshold", "hyst_grow"} -> {4}
      [] p = "dilate" -> {5}
      [] p \in {"return", "done"} -> IF apply_dilation THEN {6} ELSE {5}
      [] p = "abort" -> IF apply_dilation THEN {0, 5} ELSE {0}

\* the mask the hysteresis of the pipeline gives for the suppressed field
HysteresisMask ==
    RunHyst("canny_hysteresis_thresholding", suppressed, width, height,
            final_low_threshold, final_high_threshold).value

\* C10: canny_edge_detector_full finishes its stages in the order blur,
\* gradients, non-maximum suppression, threshold adjustment, hysteresis, and
\* dilation only with apply_dilation; where the call stands fixes how many
\* have finished; each stage's image is computed from the output of the one
\* before it; and without apply_dilation the value returned is the
\* hysteresis mask.
C10_StagesInOrder ==
    entry = "canny_edge_detector_full" =>
        /\ Len(stages) \in StagesBefore(pc)
        /\ stages = SubSeq(StageOrder, 1, Len(stages))
        /\ Len(stages) >= 1 => blurred = result
        /\ Len(stages) >= 2 =>
               \A i \in DOMAIN blurred :
                   /\ dx_i16[i] = calculate_gradients(blurred, width, height)[2 * i]
                   /\ dy_i16[i] = calculate_gradients(blurred, width, height)[2 * i + 1]
        /\ Len(stages) >= 3 =>
               suppressed = non_maximum_suppression(dx_i16, dy_i16, width, height, l2_gradient)
        /\ Len(stages) >= 4 =>
               /\ final_low_threshold =
                      IF l2_gradient THEN low_threshold * low_threshold ELSE low_threshold
               /\ final_high_threshold =
                      IF l2_gradient THEN high_threshold * high_threshold ELSE high_threshold
        /\ Len(stages) = 5 => canny_edges = HysteresisMask
        /\ Len(stages) = 6 =>
               canny_edges = dilate(target_arch, HysteresisMask, width, height,
                                    dilation_kernel_size).value
        /\ pc = "done" => ret = canny_edges
        /\ (pc = "done" /\ ~apply_dilation) => ret = HysteresisMask

\* a run without dilation has returned a mask with an edge in it
C10_Witness ==
    /\ entry = "canny_edge_detector_full"
    /\ pc = "done"
    /\ ~apply_dilation
    /\ stages = SubSeq(StageOrder, 1, 5)
    /\ \E i \in DOMAIN ret : ret[i] = 255

\* C11, as claimed: for every valid input and every setting of the flags
\* canny_edge_detector_full returns width * height bytes, each 0 or 255, and
\* a byte of the hysteresis mask is 255 exactly where the tri-state map ended
\* Strong (2).  The call panics in blur for narrow images (C5) and in
\* dilate_fast for a height below dilation_kernel_size / 2 (C18).
C11_BinaryOutput ==
    (entry = "canny_edge_detector_full" /\ ~RejectedInput /\ pc \in {"done", "abort"})
        => /\ pc = "done"
           /\ VLen(ret) = width * height
           /\ \A i \in DOMAIN ret : ret[i] \in {0, 255}
           /\ \A i \in DOMAIN edge_map : HysteresisMask[i] = 255 <=> edge_map[i] = 2

(***************************************************************************)
(* Claims about calculate_gradients and non_maximum_suppression.           *)
(***************************************************************************)
\* the pixel (x, y) of an image of width w
At(img, w, x, y) == img[y * w + x]

IsInner(x, y, w, h) == 1 <= x /\ x < w - 1 /\ 1 <= y /\ y < h - 1

\* C12: calculate_gradients returns, interleaved, for every interior pixel
\* dx = blurred[x+1, y] - blurred[x-1, y] and dy = blurred[x, y+1] -
\* blurred[x, y-1], both inside the i16 range, and dx = dy = 0 for every
\* border pixel; on a constant image every dx and dy is 0.
C12_CentralDifferences ==
    (entry = "calculate_gradients" /\ pc = "done") =>
        /\ VLen(ret) = 2 * width * height
        /\ \A x \in 0..(width - 1), y \in 0..(height - 1) :
               LET dx == ret[2 * (y * width + x)]
                   dy == ret[2 * (y * width + x) + 1]
               IN  IF IsInner(x, y, width, height)
                   THEN /\ dx = At(blurred, width, x + 1, y) - At(blurred, width, x - 1, y)
                        /\ dy = At(blurred, width, x, y + 1) - At(blurred, width, x, y - 1)
                        /\ dx \in -32768..32767 /\ dy \in -32768..32767
                   ELSE dx = 0 /\ dy = 0
        /\ (\E v \in GradPix : blurred = VecOf(width * height, v))
               => \A j \in DOMAIN ret : ret[j] = 0

\* gradients were returned with a negative dx of the largest size
C12_Witness ==
    /\ entry = "calculate_gradients" /\ pc = "done"
    /\ \E i \in DOMAIN blurred : ret[2 * i] = -255 /\ ret[2 * i + 1] = 0

\* C13: non_maximum_suppression gives every border pixel 0 and gives an
\* interior pixel its magnitude when that is non-zero and >= the magnitudes
\* of the two neighbours its direction selects, and 0 otherwise: above and
\* below when |dy| > |dx| * 2.4142, left and right when |dx| > |dy| * 2.4142,
\* otherwise top-right and bottom-left when dx and dy have the same sign
\* and top-left and bottom-right when they do not.
C13_KeepsDirectionalMaxima ==
    (entry = "non_maximum_suppression" /\ pc = "done") =>
        /\ VLen(ret) = width * height
        /\ \A x \in 0..(width - 1), y \in 0..(height - 1) :
               LET gx == At(dx_i16, width, x, y)
                   gy == At(dy_i16, width, x, y)
                   mag(px, py) == Magnitude(At(dx_i16, width, px, py),
                                            At(dy_i16, width, px, py), l2_gradient)
                   keeps(n1, n2) ==
                       /\ mag(x, y) # 0
                       /\ mag(x, y) >= mag(n1[1], n1[2])
                       /\ mag(x, y) >= mag(n2[1], n2[2])
                   kept ==
                       IF Abs(gy) * 10000 > Abs(gx) * 24142
                       THEN keeps(<<x, y - 1>>, <<x, y + 1>>)
                       ELSE IF Abs(gx) * 10000 > Abs(gy) * 24142
                       THEN keeps(<<x - 1, y>>, <<x + 1, y>>)
                       ELSE IF (gx > 0 /\ gy > 0) \/ (gx < 0 /\ gy < 0)
                       THEN keeps(<<x + 1, y - 1>>, <<x - 1, y + 1>>)
                       ELSE keeps(<<x - 1, y - 1>>, <<x + 1, y + 1>>)
               IN  At(ret, width, x, y) =
                       IF IsInner(x, y, width, height) /\ kept THEN mag(x, y) ELSE 0

\* a diagonal gradient was kept at one interior pixel and suppressed at
\* another
C13_Witness ==
    /\ entry = "non_maximum_suppression" /\ pc = "done"
    /\ \E i, j \in DOMAIN ret :
          /\ ret[i] # 0 /\ dx_i16[i] # 0 /\ dy_i16[i] # 0
          /\ ret[j] = 0 /\ dx_i16[j] # 0 /\ dy_i16[j] # 0
          /\ IsInner(j % width, j \div width, width, height)

(***************************************************************************)
(* Claims about the growth pass of the hysteresis functions.               *)
(***************************************************************************)
\* the code of a Strong, a Weak and a NonEdge pixel in the map of the
\* function running
StrongCode == 2
WeakCode == IF HystCallee = "canny_hysteresis_thresholding" THEN 1 ELSE 0
NonEdgeCode == IF HystCallee = "canny_hysteresis_thresholding" THEN 0 ELSE 1

Growing == entry \in HystEntries /\ pc = "hyst_grow"

\* the iterations the growth loop can still make are bounded by the pending
\* entries plus two for every pixel still Weak
GrowthBudget ==
    Len(stack) + 2 * Cardinality({i \in DOMAIN edge_map : edge_map[i] = WeakCode})

\* C14: whatever the order in which pending entries are taken, every entry
\* on the stack is a pixel already marked Strong, no pixel is pushed more
\* than once over the run, the stack never holds more than width * height
\* entries, and the pass terminates with an empty stack: every iteration
\* lowers GrowthBudget, a natural number, and the loop is left only when the
\* stack is empty.
C14_PushedOnceAndTerminates ==
    /\ [](entry \in HystEntries /\ pc \in {"hyst_grow", "done"} =>
             /\ \A j \in 1..Len(stack) :
                    edge_map[stack[j][2] * width + stack[j][1]] = StrongCode
             /\ \A i \in DOMAIN pushed : pushed[i] <= 1
             /\ Len(stack) <= width * height
             /\ pc = "done" => stack = << >>)
    /\ [][Growing =>
             /\ pc' = "hyst_grow" => GrowthBudget' < GrowthBudget
             /\ pc' # "hyst_grow" => stack = << >> /\ pc' = "done"]_vars

\* a run has ended in which a pixel below the high threshold was pushed
C14_Witness ==
    /\ entry \in HystEntries /\ pc = "done"
    /\ \E i \in DOMAIN pushed : pushed[i] = 1 /\ i \notin AtLeastHigh
    /\ \E i \in AtLeastHigh : pushed[i] = 1

\* C15: during the growth pass the only change of a pixel's state is Weak to
\* Strong, so a Strong pixel stays Strong and a NonEdge pixel stays NonEdge.
C15_OnlyWeakToStrong ==
    [][Growing =>
          \A i \in DOMAIN edge_map :
              edge_map'[i] # edge_map[i] =>
                  edge_map[i] = WeakCode /\ edge_map'[i] = StrongCode]_vars

\* a growth pass has ended that promoted a Weak pixel next to a seed and kept
\* a NonEdge pixel
C15_Witness ==
    /\ entry \in HystEntries /\ pc = "done"
    /\ \E i \in AtLeastLow \ AtLeastHigh : edge_map[i] = StrongCode
    /\ \E i \in AtLeastHigh : edge_map[i] = StrongCode
    /\ \E i \in DOMAIN edge_map : edge_map[i] = NonEdgeCode

\* the intermediate and output values blur is claimed to compute at index j
ClaimedIntermediate(j) ==
    ClampedDot(grayscale, (j \div width) * width, 1, j % width, width - 1, kernel_fixed)
        \div 256
ClaimedOutput(j) ==
    ToU8(VerticalSum(temp_buffer, width, height, kernel_fixed, j % width, j \div width))

\* C16, as claimed: for every odd kernel size and every pixel, the
\* intermediate value of blur is the clamped horizontal sum shifted right by
\* 8 and the output byte is the clamped vertical sum of intermediates shifted
\* right by 24, capped at 255.  The size-3 horizontal pass stores the first
\* pixel of each row without the shift.
C16_ClampedConvolution ==
    (entry = "blur" /\ pc = "done")
        => /\ \A j \in DOMAIN temp_buffer : temp_buffer[j] = ClaimedIntermediate(j)
           /\ \A j \in DOMAIN ret : ret[j] = ClaimedOutput(j)

\* both passes of blur have completed
BlurDone ==
    /\ entry \in BlurEntries
    /\ pc \notin {"blur_validate", "blur_setup", "blur_horizontal", "blur_vertical", "abort"}

\* the weights are non-negative Q16 values whose sum is at most 2^16 + size
KernelWithinQ16 ==
    /\ \A k \in DOMAIN kernel_fixed : kernel_fixed[k] >= 0
    /\ SumFn(kernel_fixed, VLen(kernel_fixed)) <= 65536 + VLen(kernel_fixed)

\* v <= 2^32 - 1
FitsU32(v) == v >= 0 /\ v \div 65536 <= 65535

\* the u32 sum of the horizontal pass at index j, before the shift
HorizontalAccumulator(j) ==
    ClampedDot(grayscale, (j \div width) * width, 1, j % width, width - 1, kernel_fixed)

\* the u64 sum of the vertical pass at index j, as hi * 2^24 + lo
VerticalAccumulator(j) ==
    VerticalSum(temp_buffer, width, height, kernel_fixed, j % width, j \div width)

\* C17: for an 8-bit image and non-negative Q16 weights whose sum is at most
\* 2^16 + size, no accumulator of blur wraps: every horizontal sum is at most
\* 255 * (2^16 + size), which is below 2^32, every stored intermediate fits
\* in 32 bits, every vertical sum is below 2^41 (hi below 2^17), far under
\* 2^64, and an output above 255 is stored as 255, not modulo 256.
C17_NoAccumulatorWraps ==
    (BlurDone /\ KernelWithinQ16) =>
        \A j \in DOMAIN result :
            /\ HorizontalAccumulator(j) <= 255 * (65536 + VLen(kernel_fixed))
            /\ FitsU32(HorizontalAccumulator(j))
            /\ FitsU32(temp_buffer[j])
            /\ VerticalAccumulator(j).hi >= 0 /\ VerticalAccumulator(j).hi < 131072
            /\ result[j] = IF VerticalAccumulator(j).hi > 255 THEN 255
                            ELSE VerticalAccumulator(j).hi

\* blur has completed with a vertical sum above 255 * 2^24, stored as 255,
\* and with one whose value above 2^24 is not a multiple of 256
C17_Witness ==
    /\ BlurDone /\ KernelWithinQ16
    /\ \E j \in DOMAIN result :
           /\ VerticalAccumulator(j).hi > 255
           /\ VerticalAccumulator(j).hi % 256 # 255
           /\ result[j] = 255

\* C18, as claimed: for every mask, every width and height >= 1 and every
\* kernel_size >= 1, the vectorized dilation of the wasm32 build ends without
\* indexing a row outside the image and returns what the scalar two-pass
\* dilation returns.  dilate_fast indexes row `height` and panics when
\* kernel_size / 2 > height.
C18_FastEqualsScalar ==
    (DilateOver /\ target_arch = "wasm32" /\ kernel_size >= 1)
        => /\ pc = "done"
           /\ ret = dilate("other", edges, width, height, kernel_size).value

\* the other of the two hysteresis functions that return a binary mask
OtherBinary(e) ==
    IF e = "canny_hysteresis_thresholding" THEN "hysteresis_thresholding_binary"
    ELSE "canny_hysteresis_thresholding"

\* C19: the private hysteresis_thresholding of canny.rs and
\* hysteresis_thresholding_binary of hysteresis.rs return the same mask for
\* the same suppressed field, width, height, low and high, and one panics
\* exactly when the other does.
C19_PrivateEqualsBinary ==
    (entry \in {"canny_hysteresis_thresholding", "hysteresis_thresholding_binary"}
         /\ pc \in {"done", "abort"}) =>
        LET other == RunHyst(OtherBinary(entry), suppressed, width, height,
                             low_threshold, high_threshold)
        IN  /\ other.aborted <=> (pc = "abort")
            /\ pc = "done" => ret = other.value

\* the private hysteresis has returned a mask in which a weak pixel was
\* promoted and a pixel at or above the low threshold stayed 0
C19_Witness ==
    /\ entry = "canny_hysteresis_thresholding" /\ pc = "done"
    /\ \E i \in AtLeastLow \ AtLeastHigh : ret[i] = 255
    /\ \E i \in AtLeastLow : ret[i] = 0

\* the state in which the growth loop of the source, which pops the last
\* entry, ends on the arguments of the call
LifoEnd ==
    Grow(HystCallee,
         HystFirstPass(HystCallee, suppressed, width, height, HystLow, HystHigh),
         width, height)

\* C20: the result depends only on the suppressed field and the thresholds,
\* not on the order in which pending entries are taken: a run that removes
\* them in any order ends with the edge map, and returns the value, of the
\* run that pops the last entry, so any two runs on the same input agree.
C20_OrderIndependent ==
    (entry \in HystEntries /\ pc = "done") =>
        /\ edge_map = LifoEnd.edge_map
        /\ ret = HystResult(HystCallee, LifoEnd)

\* a run has ended that started from two seeds or more and promoted a weak
\* pixel
C20_Witness ==
    /\ entry \in HystEntries /\ pc = "done"
    /\ Cardinality(AtLeastHigh \cap InteriorOf(width, height)) >= 2
    /\ \E i \in AtLeastLow \ AtLeastHigh : edge_map[i] = StrongCode

\* the k-th neighbour index the growth loop computes for the entry p, and
\* whether it is the pixel one step (dx, dy) away from p, inside the image:
\* hysteresis.rs adds a flat offset to the flat index, canny.rs adds dx and
\* dy to the coordinates
NeighbourInPlace(p, k) ==
    LET nx == p[1] + CannyDeltas[k][1]
        ny == p[2] + CannyDeltas[k][2]
    IN  IF HystCallee = "canny_hysteresis_thresholding"
        THEN /\ AsUsize(nx) < width /\ AsUsize(ny) < height
             /\ AsUsize(ny) * width + AsUsize(nx) < width * height
        ELSE LET neighbor_idx == AsUsize(p[2] * width + p[1] + NeighborOffsets(width)[k])
             IN  /\ neighbor_idx < width * height
                 /\ neighbor_idx \div width = ny
                 /\ neighbor_idx % width = nx

\* C21: in every state of the growth pass each entry on the work stack is an
\* interior pixel marked Strong, only interior pixels are Weak or Strong, and
\* each of the eight neighbour indices computed for an entry lies in
\* [0, width * height) on the same or an adjacent row, at the column next to
\* the entry's: none wraps to the opposite side of the image.
C21_StackInteriorNoWrap ==
    Growing =>
        /\ \A j \in 1..Len(stack) :
               /\ stack[j][1] >= 1 /\ stack[j][1] <= width - 2
               /\ stack[j][2] >= 1 /\ stack[j][2] <= height - 2
               /\ edge_map[stack[j][2] * width + stack[j][1]] = StrongCode
               /\ \A k \in 1..8 : NeighbourInPlace(stack[j], k)
        /\ \A i \in DOMAIN edge_map :
               edge_map[i] \in {WeakCode, StrongCode} => i \in InteriorOf(width, height)

\* the growth pass holds an entry that was promoted from Weak and lies on the
\* last interior column and the first interior row, so that its neighbours
\* reach the last column and the first row of the image
C21_Witness ==
    /\ Growing
    /\ \E j \in 1..Len(stack) :
           /\ stack[j][2] * width + stack[j][1] \notin AtLeastHigh
           /\ stack[j][1] = width - 2
           /\ stack[j][2] = 1

====
